---- MODULE Spec2Model ----
(***************************************************************************)
(* Ultimate Tic-Tac-Toe (src/src/App.js): the game object built with       *)
(* boardgame.io's Game({setup, moves: {markCell}, flow: {endGameIf}}), the *)
(* board's click handler and the AI's move enumerator.                     *)
(*                                                                         *)
(* G is the game state of setup(); ctx is the part of boardgame.io's       *)
(* context that App.js reads (currentPlayer, gameover).                    *)
(***************************************************************************)
EXTENDS Integers, Sequences, FiniteSets, TLC

VARIABLES G, ctx

vars == <<G, ctx>>

(***************************************************************************)
(* Bounds of the exploration.                                              *)
(***************************************************************************)
\* Number of opening moves that are explored over every cell a click can
\* name; later accepted moves are the ones the enumerating bot plays.
MaxFree == 1

(***************************************************************************)
(* Values.                                                                 *)
(***************************************************************************)
\* JavaScript null, as stored in cells and winner.
null == "null"

\* What reading an array index that does not exist gives.
undefined == "undefined"

\* ctx.currentPlayer is '0' or '1'; 'XO'[cell] renders it.
Players == {"0", "1"}

\* Indices of Array(9).
Ids == 0 .. 8

\* Arguments a caller can hand to moves.markCell: the indices, and one value
\* below and one above them.
Args == -1 .. 9

\* G.nextBoardId is null or a board index; null is <<>> and index k is <<k>>.
anyBoard == <<>>

Id(k) == <<k>>

\* ctx.gameover === undefined
NoGameover == [undefined |-> TRUE]

\* Results of a dispatched move.
INVALID_MOVE == "INVALID_MOVE"

TypeError == "TypeError"

GameEnded == "gameover"

Applied == "applied"

\* arr[i] in JavaScript: undefined outside the array.
Read(arr, i) == IF i \in DOMAIN arr THEN arr[i] ELSE undefined

\* v == null (loose equality): true of null and of undefined.
LooseNull(v) == v \in {null, undefined}

(***************************************************************************)
(* Pure functions of App.js.                                               *)
(***************************************************************************)
\* isVictory without the second diagonal.
isVictory_oneDiagonal(cells) ==
    \/ cells[0] # null /\ (cells[0] = cells[1] /\ cells[0] = cells[2])
    \/ cells[3] # null /\ (cells[3] = cells[4] /\ cells[3] = cells[5])
    \/ cells[6] # null /\ (cells[6] = cells[7] /\ cells[6] = cells[8])
    \/ cells[0] # null /\ (cells[0] = cells[3] /\ cells[0] = cells[6])
    \/ cells[1] # null /\ (cells[1] = cells[4] /\ cells[1] = cells[7])
    \/ cells[2] # null /\ (cells[2] = cells[5] /\ cells[2] = cells[8])
    \/ cells[0] # null /\ (cells[0] = cells[4] /\ cells[0] = cells[8])

isVictory(cells) ==
    \/ cells[0] # null /\ (cells[0] = cells[1] /\ cells[0] = cells[2])
    \/ cells[3] # null /\ (cells[3] = cells[4] /\ cells[3] = cells[5])
    \/ cells[6] # null /\ (cells[6] = cells[7] /\ cells[6] = cells[8])
    \/ cells[0] # null /\ (cells[0] = cells[3] /\ cells[0] = cells[6])
    \/ cells[1] # null /\ (cells[1] = cells[4] /\ cells[1] = cells[7])
    \/ cells[2] # null /\ (cells[2] = cells[5] /\ cells[2] = cells[8])
    \/ cells[0] # null /\ (cells[0] = cells[4] /\ cells[0] = cells[8])
    \/ cells[2] # null /\ (cells[2] = cells[4] /\ cells[2] = cells[6])

isComplete(cells) == Cardinality({i \in DOMAIN cells : cells[i] = null}) = 0

\* allBoardsComplete with the filter's test inverted.
allBoardsComplete_inverted(boards) ==
    Cardinality({i \in DOMAIN boards : boards[i].complete}) = 0

allBoardsComplete(boards) ==
    Cardinality({i \in DOMAIN boards : ~boards[i].complete}) = 0

boardsToCells(boards) == [i \in DOMAIN boards |-> boards[i].winner]

\* isValidMove reads G.boards[boardId].complete: a TypeError when the first
\* conjunct holds and boards[boardId] is undefined.
isValidMoveThrows(g, boardId) ==
    /\ (Id(boardId) = g.nextBoardId \/ g.nextBoardId = anyBoard)
    /\ boardId \notin DOMAIN g.boards

\* isValidMove without the test of the board's complete flag.
isValidMove_noComplete(g, boardId, cellId) ==
    /\ (Id(boardId) = g.nextBoardId \/ g.nextBoardId = anyBoard)
    /\ LooseNull(Read(g.boards[boardId].cells, cellId))

isValidMove(g, boardId, cellId) ==
    /\ (Id(boardId) = g.nextBoardId \/ g.nextBoardId = anyBoard)
    /\ ~g.boards[boardId].complete
    /\ LooseNull(Read(g.boards[boardId].cells, cellId))

\* setup that starts the game routed to board 0.
setup_routed ==
    [boards |-> [b \in Ids |-> [cells |-> [c \in Ids |-> null],
                                complete |-> FALSE,
                                winner |-> null]],
     nextBoardId |-> Id(0)]

setup ==
    [boards |-> [b \in Ids |-> [cells |-> [c \in Ids |-> null],
                                complete |-> FALSE,
                                winner |-> null]],
     nextBoardId |-> anyBoard]

\* placeMark that writes the cell after the one named.
placeMark_nextCell(cells, cellId, player) ==
    [cells EXCEPT ![(cellId + 1) % 9] = player]

\* Line 54: the mark of the current player goes into the cell.
placeMark(cells, cellId, player) == [cells EXCEPT ![cellId] = player]

\* localResult that credits a board filled without a line to the mover.
localResult_fullWins(board, cells, player) ==
    IF isVictory(cells) \/ isComplete(cells)
    THEN [cells |-> cells, complete |-> TRUE, winner |-> player]
    ELSE [cells |-> cells, complete |-> board.complete,
          winner |-> board.winner]

\* localResult that completes a board only on a winning line.
localResult_noFull(board, cells, player) ==
    IF isVictory(cells)
    THEN [cells |-> cells, complete |-> TRUE, winner |-> player]
    ELSE [cells |-> cells, complete |-> board.complete,
          winner |-> board.winner]

\* Lines 56-61: the board after the mark was placed.
localResult(board, cells, player) ==
    IF isVictory(cells)
    THEN [cells |-> cells, complete |-> TRUE, winner |-> player]
    ELSE IF isComplete(cells)
         THEN [cells |-> cells, complete |-> TRUE, winner |-> board.winner]
         ELSE [cells |-> cells, complete |-> board.complete,
               winner |-> board.winner]

\* route that sends to board cellId whether or not it is complete.
route_noAny(boards, cellId) == Id(cellId)

\* Line 63.
route(boards, cellId) ==
    IF boards[cellId].complete THEN anyBoard ELSE Id(cellId)

\* markCell that writes the mark before it validates the move.
markCell_writeFirst(g, c, boardId, cellId) ==
    IF isValidMoveThrows(g, boardId)
    THEN [ret |-> TypeError, G |-> g]
    ELSE IF ~isValidMove(g, boardId, cellId)
    THEN [ret |-> INVALID_MOVE,
          G   |-> IF boardId \in Ids /\ cellId \in Ids
                  THEN [g EXCEPT !.boards[boardId].cells[cellId] =
                                     c.currentPlayer]
                  ELSE g]
    ELSE IF cellId \notin DOMAIN g.boards
    THEN [ret |-> TypeError, G |-> g]
    ELSE LET cells  == placeMark(g.boards[boardId].cells, cellId,
                                 c.currentPlayer)
             boards == [g.boards EXCEPT
                          ![boardId] = localResult(g.boards[boardId], cells,
                                                   c.currentPlayer)]
         IN  [ret |-> Applied,
              G   |-> [boards |-> boards,
                       nextBoardId |-> route(boards, cellId)]]

\* markCell that routes by the boards as they were before the move.
markCell_staleRoute(g, c, boardId, cellId) ==
    IF isValidMoveThrows(g, boardId)
    THEN [ret |-> TypeError, G |-> g]
    ELSE IF ~isValidMove(g, boardId, cellId)
    THEN [ret |-> INVALID_MOVE, G |-> g]
    ELSE IF cellId \notin DOMAIN g.boards
    THEN [ret |-> TypeError, G |-> g]
    ELSE LET cells  == placeMark(g.boards[boardId].cells, cellId,
                                 c.currentPlayer)
             boards == [g.boards EXCEPT
                          ![boardId] = localResult(g.boards[boardId], cells,
                                                   c.currentPlayer)]
         IN  [ret |-> Applied,
              G   |-> [boards |-> boards,
                       nextBoardId |-> route(g.boards, cellId)]]

\* markCell(G, ctx, boardId, cellId): what it returns or throws, and G after
\* it. The move runs on a draft of G, so a TypeError leaves G as it was.
\* With cellId outside the array isValidMove holds (undefined == null), the
\* mark is written to the draft and line 63 reads .complete of undefined.
markCell(g, c, boardId, cellId) ==
    IF isValidMoveThrows(g, boardId)
    THEN [ret |-> TypeError, G |-> g]
    ELSE IF ~isValidMove(g, boardId, cellId)
    THEN [ret |-> INVALID_MOVE, G |-> g]
    ELSE IF cellId \notin DOMAIN g.boards
    THEN [ret |-> TypeError, G |-> g]
    ELSE LET cells  == placeMark(g.boards[boardId].cells, cellId,
                                 c.currentPlayer)
             boards == [g.boards EXCEPT
                          ![boardId] = localResult(g.boards[boardId], cells,
                                                   c.currentPlayer)]
         IN  [ret |-> Applied,
              G   |-> [boards |-> boards,
                       nextBoardId |-> route(boards, cellId)]]

\* endGameIf whose draw test is only that every meta cell is taken.
endGameIf_metaFull(g, c) ==
    LET cells == boardsToCells(g.boards)
    IN  IF isVictory(cells)
        THEN [winner |-> c.currentPlayer]
        ELSE IF isComplete(cells)
             THEN [draw |-> TRUE]
             ELSE NoGameover

endGameIf(g, c) ==
    LET cells == boardsToCells(g.boards)
    IN  IF isVictory(cells)
        THEN [winner |-> c.currentPlayer]
        ELSE IF isComplete(cells) \/ allBoardsComplete(g.boards)
             THEN [draw |-> TRUE]
             ELSE NoGameover

otherPlayer(p) == IF p = "0" THEN "1" ELSE "0"

\* endTurn that never passes the turn on.
endTurn_noSwitch(g, c) ==
    LET gameover == endGameIf(g, c)
    IN  IF gameover # NoGameover
        THEN [c EXCEPT !.gameover = gameover]
        ELSE c

\* ctx.events.endTurn() after the move: endGameIf is asked with the player
\* who just moved still current; the turn passes on only if the game goes on.
endTurn(g, c) ==
    LET gameover == endGameIf(g, c)
    IN  IF gameover # NoGameover
        THEN [c EXCEPT !.gameover = gameover]
        ELSE [c EXCEPT !.currentPlayer = otherPlayer(c.currentPlayer)]

\* The inner loop stopping one cell early.
RECURSIVE enumerateCells_short(_, _, _)
enumerateCells_short(g, boardId, cellId) ==
    IF ~(cellId < 8) THEN <<>>
    ELSE (IF isValidMove(g, boardId, cellId)
          THEN << <<boardId, cellId>> >>
          ELSE <<>>) \o enumerateCells_short(g, boardId, cellId + 1)

\* The AI's enumerate. The inner loop, from cellId on.
RECURSIVE enumerateCells(_, _, _)
enumerateCells(g, boardId, cellId) ==
    IF ~(cellId < 9) THEN <<>>
    ELSE (IF isValidMove(g, boardId, cellId)
          THEN << <<boardId, cellId>> >>
          ELSE <<>>) \o enumerateCells(g, boardId, cellId + 1)

\* The outer loop, from boardId on.
RECURSIVE enumerateBoards(_, _)
enumerateBoards(g, boardId) ==
    IF ~(boardId < 9) THEN <<>>
    ELSE enumerateCells(g, boardId, 0) \o enumerateBoards(g, boardId + 1)

enumerate(g, c) == enumerateBoards(g, 0)

\* Dispatch that runs moves after the game has ended.
Dispatch_afterEnd(g, c, boardId, cellId) ==
    LET r == markCell(g, c, boardId, cellId)
    IN  IF r.ret # Applied
        THEN [ret |-> r.ret, G |-> g, ctx |-> c]
        ELSE [ret |-> Applied, G |-> r.G, ctx |-> endTurn(r.G, c)]

\* moves.markCell(boardId, cellId) as the client dispatches it, from game g
\* and context c. The test of ctx.gameover is boardgame.io's, which runs no
\* move of a game that has ended; markCell and isValidMove do not make it.
\* INVALID_MOVE and a throw leave the state; otherwise the new G is stored
\* and the turn ends.
Dispatch(g, c, boardId, cellId) ==
    IF c.gameover # NoGameover
    THEN [ret |-> GameEnded, G |-> g, ctx |-> c]
    ELSE LET r == markCell(g, c, boardId, cellId)
         IN  IF r.ret # Applied
             THEN [ret |-> r.ret, G |-> g, ctx |-> c]
             ELSE [ret |-> Applied, G |-> r.G, ctx |-> endTurn(r.G, c)]

\* Marks on the 81 cells.
Marks(g) ==
    Cardinality({bc \in Ids \X Ids : g.boards[bc[1]].cells[bc[2]] # null})

(***************************************************************************)
(* The state machine.                                                      *)
(***************************************************************************)
Init ==
    /\ G = setup
    /\ ctx = [currentPlayer |-> "0", gameover |-> NoGameover]

MakeMove(boardId, cellId) ==
    LET d == Dispatch(G, ctx, boardId, cellId)
    IN  /\ G' = d.G
        /\ ctx' = d.ctx

\* The opening lasts while fewer than MaxFree marks are on the boards.
Opening == Marks(G) < MaxFree

\* onClickCell, or any caller of moves.markCell: every argument is explored
\* while the opening lasts.
Click(boardId, cellId) == MakeMove(boardId, cellId)

\* A bot that plays the first move the AI's enumerate lists.
BotMove ==
    LET moves == enumerate(G, ctx)
    IN  /\ moves # <<>>
        /\ MakeMove(moves[1][1], moves[1][2])

Next ==
    \/ Opening /\ \E boardId \in Args, cellId \in Args : Click(boardId, cellId)
    \/ BotMove

Spec == Init /\ [][Next]_vars

(***************************************************************************)
(* Vocabulary of the properties.                                           *)
(***************************************************************************)
\* The eight lines of a 3x3 grid.
Lines ==
    {{0, 1, 2}, {3, 4, 5}, {6, 7, 8}, {0, 3, 6}, {1, 4, 7}, {2, 5, 8},
     {0, 4, 8}, {2, 4, 6}}

\* Player p holds a whole line of the grid.
LineOf(cells, p) == \E l \in Lines : \A i \in l : cells[i] = p

AnyLine(cells) == \E p \in Players : LineOf(cells, p)

\* No cell of the grid is empty.
Full(cells) == \A i \in Ids : cells[i] # null

\* The meta-grid of the boards' winners.
Meta(boards) == [i \in Ids |-> boards[i].winner]

\* Dispatching the move from the current state applies it.
Accepted(boardId, cellId) == Dispatch(G, ctx, boardId, cellId).ret = Applied

\* The conditions on the boards that the rules put on a move.
BoardConditions(boardId, cellId) ==
    /\ ~G.boards[boardId].complete
    /\ G.boards[boardId].cells[cellId] = null
    /\ (G.nextBoardId = anyBoard \/ G.nextBoardId = Id(boardId))

\* A legal move: the game is on and the conditions on the boards hold.
Legal(boardId, cellId) ==
    ctx.gameover = NoGameover /\ BoardConditions(boardId, cellId)

\* What a refused move comes to.
IllegalMove == {INVALID_MOVE, GameEnded}

(***************************************************************************)
(* C1                                                                      *)
(***************************************************************************)
\* C1 as stated: for indices in 0..8, isValidMove returns true iff the
\* outcome is ongoing, the board is not complete, the cell is EMPTY and
\* nextBoardId is "any" or boardId.
C1_Original ==
    \A boardId \in Ids, cellId \in Ids :
        isValidMove(G, boardId, cellId) <=>
            (ctx.gameover = NoGameover /\ BoardConditions(boardId, cellId))

\* C1 amended: isValidMove returns true iff the board is not complete, the
\* cell is EMPTY and nextBoardId is "any" or boardId, whatever the outcome;
\* a dispatched move is applied iff these hold and the outcome is ongoing.
C1_Legality ==
    \A boardId \in Ids, cellId \in Ids :
        /\ isValidMove(G, boardId, cellId) <=>
               BoardConditions(boardId, cellId)
        /\ Accepted(boardId, cellId) <=>
               (ctx.gameover = NoGameover /\ BoardConditions(boardId, cellId))

\* The game has ended and isValidMove still holds of a move, which the
\* dispatch refuses; another move fails on a complete board alone.
C1_Witness ==
    /\ ctx.gameover # NoGameover
    /\ \E boardId \in Ids, cellId \in Ids :
           isValidMove(G, boardId, cellId) /\ ~Accepted(boardId, cellId)
    /\ \E boardId \in Ids, cellId \in Ids :
           /\ G.boards[boardId].complete
           /\ G.boards[boardId].cells[cellId] = null
           /\ G.nextBoardId = anyBoard
           /\ ~isValidMove(G, boardId, cellId)

(***************************************************************************)
(* C2                                                                      *)
(***************************************************************************)
\* C2: a move that isValidMove rejects makes markCell return INVALID_MOVE
\* with G untouched, and its dispatch leaves G and ctx as they were.
C2_Atomicity ==
    \A boardId \in Args, cellId \in Args :
        (~isValidMoveThrows(G, boardId) /\ ~isValidMove(G, boardId, cellId))
        => LET after == Dispatch(G, ctx, boardId, cellId)
           IN  /\ markCell(G, ctx, boardId, cellId) =
                      [ret |-> INVALID_MOVE, G |-> G]
               /\ after.ret \in IllegalMove
               /\ after.G = G
               /\ after.ctx = ctx

\* In a running game with marks on the boards, a move to an occupied cell
\* and a move to a board other than the routed one are both refused.
C2_Witness ==
    /\ ctx.gameover = NoGameover
    /\ \E boardId \in Ids, cellId \in Ids :
           /\ G.nextBoardId = Id(boardId)
           /\ G.boards[boardId].cells[cellId] # null
           /\ Dispatch(G, ctx, boardId, cellId).ret = INVALID_MOVE
    /\ \E boardId \in Ids, cellId \in Ids :
           /\ G.nextBoardId \notin {anyBoard, Id(boardId)}
           /\ G.boards[boardId].cells[cellId] = null
           /\ Dispatch(G, ctx, boardId, cellId).ret = INVALID_MOVE

C4_Routing ==
    \A boardId \in Ids, cellId \in Ids :
        Legal(boardId, cellId) =>
            LET after == Dispatch(G, ctx, boardId, cellId)
            IN  /\ after.ret = Applied
                /\ after.G.nextBoardId =
                       IF after.G.boards[cellId].complete
                       THEN anyBoard
                       ELSE Id(cellId)

\* A legal move at (b, b) completes board b itself, and another legal move
\* sends to a board that was complete before.
C4_Witness ==
    /\ \E b \in Ids :
           /\ Legal(b, b)
           /\ ~G.boards[b].complete
           /\ Dispatch(G, ctx, b, b).G.boards[b].complete
           /\ Dispatch(G, ctx, b, b).G.nextBoardId = anyBoard
    /\ \E boardId \in Ids, cellId \in Ids :
           /\ Legal(boardId, cellId)
           /\ G.boards[cellId].complete
           /\ Dispatch(G, ctx, boardId, cellId).G.nextBoardId = anyBoard

(***************************************************************************)
(* C5                                                                      *)
(***************************************************************************)
\* A board filled without a line.
DrawnLocally(board) == Full(board.cells) /\ ~AnyLine(board.cells)

\* C5: after a legal move the outcome is won(mover) iff the meta-grid of
\* winners has a line, draw iff it has none and all nine boards are
\* complete, and ongoing otherwise; a board drawn locally is on no line of
\* the meta-grid that counts.
C5_Outcome ==
    \A boardId \in Ids, cellId \in Ids :
        Legal(boardId, cellId) =>
            LET after    == Dispatch(G, ctx, boardId, cellId)
                boards   == after.G.boards
                gameover == after.ctx.gameover
                line     == AnyLine(Meta(boards))
                complete == \A i \in Ids : boards[i].complete
            IN  /\ after.ret = Applied
                /\ gameover = [winner |-> ctx.currentPlayer] <=> line
                /\ "winner" \in DOMAIN gameover
                       => gameover.winner = ctx.currentPlayer
                /\ gameover = [draw |-> TRUE] <=> (~line /\ complete)
                /\ gameover = NoGameover <=> (~line /\ ~complete)
                /\ \A i \in Ids :
                       DrawnLocally(boards[i]) =>
                           \A l \in Lines, p \in Players :
                               i \in l => ~(\A j \in l : boards[j].winner = p)

\* A legal move ends the game in a draw with a locally drawn board among
\* the nine.
C5_Witness ==
    \E boardId \in Ids, cellId \in Ids :
        /\ Legal(boardId, cellId)
        /\ Dispatch(G, ctx, boardId, cellId).ctx.gameover = [draw |-> TRUE]
        /\ \E i \in Ids :
               DrawnLocally(Dispatch(G, ctx, boardId, cellId).G.boards[i])

(***************************************************************************)
(* C6                                                                      *)
(***************************************************************************)
\* C6: after a legal move by p on board boardId, the board is complete with
\* winner p if its cells hold a line, complete with winner EMPTY if they
\* hold none and are all taken, and else not complete with winner EMPTY.
C6_LocalResult ==
    \A boardId \in Ids, cellId \in Ids :
        Legal(boardId, cellId) =>
            LET after == Dispatch(G, ctx, boardId, cellId)
                board == after.G.boards[boardId]
            IN  /\ after.ret = Applied
                /\ IF AnyLine(board.cells)
                   THEN board.complete /\ board.winner = ctx.currentPlayer
                   ELSE IF Full(board.cells)
                   THEN board.complete /\ board.winner = null
                   ELSE ~board.complete /\ board.winner = null

\* A legal move fills a board without a line, on a state where another
\* board is already won.
C6_Witness ==
    /\ \E b \in Ids : G.boards[b].winner # null
    /\ \E boardId \in Ids, cellId \in Ids :
           /\ Legal(boardId, cellId)
           /\ DrawnLocally(Dispatch(G, ctx, boardId, cellId).G.boards[boardId])

(***************************************************************************)
(* C7                                                                      *)
(***************************************************************************)
\* C7: a legal move that does not end the game hands the turn to the other
\* player, and the mark a legal move places is PLAYER_0's when an even
\* number of marks is on the boards and PLAYER_1's when an odd number is.
C7_Alternation ==
    LET mark == IF Marks(G) % 2 = 0 THEN "0" ELSE "1"
    IN  \A boardId \in Ids, cellId \in Ids :
            Legal(boardId, cellId) =>
                LET after == Dispatch(G, ctx, boardId, cellId)
                IN  /\ after.ret = Applied
                    /\ after.ctx.gameover = NoGameover =>
                           /\ after.ctx.currentPlayer \in Players
                           /\ after.ctx.currentPlayer # ctx.currentPlayer
                    /\ after.G.boards[boardId].cells[cellId] = mark

\* After several moves, PLAYER_1 has a legal move that does not end the game.
C7_Witness ==
    /\ Marks(G) >= 3
    /\ ctx.currentPlayer = "1"
    /\ \E boardId \in Ids, cellId \in Ids :
           /\ Legal(boardId, cellId)
           /\ Dispatch(G, ctx, boardId, cellId).ctx.gameover = NoGameover
           /\ Dispatch(G, ctx, boardId, cellId).ctx.currentPlayer = "0"

(***************************************************************************)
(* C8                                                                      *)
(***************************************************************************)
\* (b1, c1) comes before (b2, c2).
Before(m1, m2) == m1[1] < m2[1] \/ (m1[1] = m2[1] /\ m1[2] < m2[2])

\* C8: in every state, ongoing or ended, enumerate lists exactly the pairs
\* of 0..8 x 0..8 of which isValidMove holds, in strictly ascending order.
C8_Enumerate ==
    LET moves == enumerate(G, ctx)
    IN  /\ {moves[i] : i \in DOMAIN moves} =
               {m \in Ids \X Ids : isValidMove(G, m[1], m[2])}
        /\ \A i \in DOMAIN moves, j \in DOMAIN moves :
               i < j => Before(moves[i], moves[j])

\* An ended game in which enumerate lists moves of two boards.
C8_Witness ==
    /\ ctx.gameover # NoGameover
    /\ \E i \in DOMAIN enumerate(G, ctx), j \in DOMAIN enumerate(G, ctx) :
           enumerate(G, ctx)[i][1] # enumerate(G, ctx)[j][1]

(***************************************************************************)
(* C9                                                                      *)
(***************************************************************************)
\* C9: of a move with boardId or cellId outside 0..8, isValidMove returns
\* false, and its dispatch is refused as an illegal move with G and ctx
\* unchanged and no other error.
C9_OutOfRange ==
    \A boardId \in Args, cellId \in Args :
        (boardId \notin Ids \/ cellId \notin Ids) =>
            /\ ~isValidMoveThrows(G, boardId)
            /\ ~isValidMove(G, boardId, cellId)
            /\ Dispatch(G, ctx, boardId, cellId).ret \in IllegalMove
            /\ Dispatch(G, ctx, boardId, cellId).G = G
            /\ Dispatch(G, ctx, boardId, cellId).ctx = ctx

(***************************************************************************)
(* C10                                                                     *)
(***************************************************************************)
\* C10: on every board, a winner other than EMPTY implies complete, and
\* complete holds exactly when the cells hold a line or are all taken.
C10_LocalInvariant ==
    \A b \in Ids :
        /\ G.boards[b].winner # null => G.boards[b].complete
        /\ G.boards[b].complete <=>
               (AnyLine(G.boards[b].cells) \/ Full(G.boards[b].cells))

\* One board is won, another is filled without a line, a third has marks
\* and is not complete.
C10_Witness ==
    /\ \E b \in Ids : G.boards[b].winner # null
    /\ \E b \in Ids : G.boards[b].complete /\ DrawnLocally(G.boards[b])
    /\ \E b \in Ids :
           /\ ~G.boards[b].complete
           /\ \E c \in Ids : G.boards[b].cells[c] # null

(***************************************************************************)
(* C11                                                                     *)
(***************************************************************************)
\* From boards before to boards after, a complete board is left as it was
\* and no mark is overwritten or cleared.
Kept(before, after) ==
    \A i \in Ids :
        /\ before[i].complete => after[i] = before[i]
        /\ \A k \in Ids :
               before[i].cells[k] # null =>
                   after[i].cells[k] = before[i].cells[k]

\* C11: once a board is complete, no move changes its cells, complete flag
\* or winner, and a cell that is not EMPTY is never overwritten or cleared:
\* of every move that a state applies, and of every step.
C11_Frozen ==
    /\ [](\A boardId \in Ids, cellId \in Ids :
            LET after == Dispatch(G, ctx, boardId, cellId)
            IN  after.ret = Applied => Kept(G.boards, after.G.boards))
    /\ [][Kept(G.boards, G'.boards)]_vars

\* The game is on, a board is won, another is filled without a line, and
\* moves are applied while "any" board may be played.
C11_Witness ==
    /\ ctx.gameover = NoGameover
    /\ G.nextBoardId = anyBoard
    /\ \E b \in Ids : G.boards[b].complete /\ G.boards[b].winner # null
    /\ \E b \in Ids :
           /\ G.boards[b].complete
           /\ G.boards[b].winner = null
           /\ \A k \in Ids : G.boards[b].cells[k] # null
    /\ \E boardId \in Ids, cellId \in Ids :
           Dispatch(G, ctx, boardId, cellId).ret = Applied

(***************************************************************************)
(* C12                                                                     *)
(***************************************************************************)
\* C12: the state before any move has all 81 cells EMPTY, every board not
\* complete and without winner, nextBoardId "any", PLAYER_0 to move and the
\* outcome ongoing, and each of the 81 pairs is applied as a first move.
C12_Initial ==
    Marks(G) = 0 =>
        /\ \A b \in Ids :
               /\ DOMAIN G.boards[b].cells = Ids
               /\ \A c \in Ids : G.boards[b].cells[c] = null
               /\ G.boards[b].complete = FALSE
               /\ G.boards[b].winner = null
        /\ DOMAIN G.boards = Ids
        /\ G.nextBoardId = anyBoard
        /\ ctx.currentPlayer = "0"
        /\ ctx.gameover = NoGameover
        /\ \A boardId \in Ids, cellId \in Ids :
               /\ isValidMove(G, boardId, cellId)
               /\ Dispatch(G, ctx, boardId, cellId).ret = Applied
        /\ Len(enumerate(G, ctx)) = 81

\* The state before any move, from which the move at (8, 8) is applied.
C12_Witness ==
    /\ Marks(G) = 0
    /\ Dispatch(G, ctx, 8, 8).ret = Applied
    /\ Dispatch(G, ctx, 8, 8).G.boards[8].cells[8] = "0"

(***************************************************************************)
(* C13                                                                     *)
(***************************************************************************)
\* The draw test of endGameIf on the boards, and the specified one.
CodeDraw(boards) ==
    isComplete(boardsToCells(boards)) \/ allBoardsComplete(boards)

SpecDraw(boards) == \A i \in Ids : boards[i].complete

\* C13: in every reachable state, and after every legal move from it, the
\* draw test of the code agrees with "all nine boards are complete", and a
\* meta-grid without an EMPTY cell has all nine boards complete.
C13_DrawTest ==
    /\ CodeDraw(G.boards) <=> SpecDraw(G.boards)
    /\ isComplete(boardsToCells(G.boards)) => SpecDraw(G.boards)
    /\ \A boardId \in Ids, cellId \in Ids :
           Legal(boardId, cellId) =>
               LET boards == Dispatch(G, ctx, boardId, cellId).G.boards
               IN  /\ CodeDraw(boards) <=> SpecDraw(boards)
                   /\ isComplete(boardsToCells(boards)) => SpecDraw(boards)

\* A game drawn with every meta cell taken and no line on the meta-grid.
C13_Witness ==
    /\ ctx.gameover = [draw |-> TRUE]
    /\ isComplete(boardsToCells(G.boards))
    /\ ~isVictory(boardsToCells(G.boards))
    /\ SpecDraw(G.boards)

(***************************************************************************)
(* isVictory on every sequence of nine marks. G carries the arguments: the *)
(* sequence is the cells of each board and, board by board, the winners.   *)
(* These are arguments of the function, not states of a game.              *)
(***************************************************************************)
\* What a cell or a winner can hold.
MarkValues == {null} \cup Players

VictoryInit ==
    /\ \E marks \in [Ids -> MarkValues] :
           G = [boards |-> [b \in Ids |-> [cells |-> marks,
                                           complete |-> FALSE,
                                           winner |-> marks[b]]],
                nextBoardId |-> anyBoard]
    /\ ctx = [currentPlayer |-> "0", gameover |-> NoGameover]

\* Lines 56-61 on the cells of board 0, while the game is on.
CheckLocal ==
    /\ ctx.gameover = NoGameover
    /\ G' = [G EXCEPT !.boards[0] =
                 localResult(G.boards[0], G.boards[0].cells,
                             ctx.currentPlayer)]
    /\ UNCHANGED ctx

\* endGameIf on the winners.
CheckMeta ==
    /\ ctx' = [ctx EXCEPT !.gameover = endGameIf(G, ctx)]
    /\ UNCHANGED G

VictoryNext == CheckLocal \/ CheckMeta

SpecVictory == VictoryInit /\ [][VictoryNext]_vars

(***************************************************************************)
(* C14                                                                     *)
(***************************************************************************)
\* One of the eight triples holds three equal marks that are not EMPTY.
ThreeEqual(marks) ==
    \E l \in Lines :
        \A i \in l, j \in l : marks[i] # null /\ marks[i] = marks[j]

\* C14: on every sequence of nine marks isVictory is true iff one of the
\* eight triples holds three equal marks that are not EMPTY, on the cells of
\* a board as on the meta-grid of winners; a board is given to the mover and
\* the game is won by the same test.
C14_Victory ==
    LET cells == G.boards[0].cells
        meta  == boardsToCells(G.boards)
    IN  /\ isVictory(cells) <=> ThreeEqual(cells)
        /\ isVictory(meta) <=> ThreeEqual(meta)
        /\ (G.boards[0].complete /\ ThreeEqual(cells))
               => G.boards[0].winner = ctx.currentPlayer
        /\ (G.boards[0].complete /\ ~ThreeEqual(cells))
               => (Full(cells) /\ G.boards[0].winner = cells[0])
        /\ "winner" \in DOMAIN ctx.gameover => ThreeEqual(meta)
        /\ "draw" \in DOMAIN ctx.gameover => ~ThreeEqual(meta)

\* The only line of the cells is the diagonal 2, 4, 6, held by PLAYER_1;
\* board 0 was completed on it and the game was won on the winners.
C14_Witness ==
    LET cells == G.boards[0].cells
    IN  /\ \A l \in Lines :
               (\A i \in l : cells[i] = "1") <=> l = {2, 4, 6}
        /\ ~LineOf(cells, "0")
        /\ G.boards[0].complete
        /\ "winner" \in DOMAIN ctx.gameover

(***************************************************************************)
(* C15                                                                     *)
(***************************************************************************)
\* C15: a legal move at (boardId, cellId) turns that one cell from EMPTY
\* into the mover's mark and leaves every other cell of the board, and the
\* cells, complete flag and winner of the other eight boards, as they were.
C15_Frame ==
    \A boardId \in Ids, cellId \in Ids :
        Legal(boardId, cellId) =>
            LET after == Dispatch(G, ctx, boardId, cellId)
            IN  /\ after.ret = Applied
                /\ G.boards[boardId].cells[cellId] = null
                /\ after.G.boards[boardId].cells[cellId] = ctx.currentPlayer
                /\ ctx.currentPlayer \in Players
                /\ \A k \in Ids \ {cellId} :
                       after.G.boards[boardId].cells[k] =
                           G.boards[boardId].cells[k]
                /\ \A i \in Ids \ {boardId} :
                       after.G.boards[i] = G.boards[i]
                /\ DOMAIN after.G.boards = Ids
                /\ DOMAIN after.G.boards[boardId].cells = Ids

\* PLAYER_1 has a legal move on a board with marks that completes the
\* board, while other boards hold marks and one of them is complete.
C15_Witness ==
    /\ ctx.currentPlayer = "1"
    /\ \E boardId \in Ids, cellId \in Ids :
           /\ Legal(boardId, cellId)
           /\ \E k \in Ids : G.boards[boardId].cells[k] # null
           /\ Dispatch(G, ctx, boardId, cellId).G.boards[boardId].complete
           /\ \E i \in Ids \ {boardId} : G.boards[i].complete

(***************************************************************************)
(* C16                                                                     *)
(***************************************************************************)
\* Some move is applied from game g with context c.
CanMove(g, c) ==
    \E boardId \in Ids, cellId \in Ids :
        /\ isValidMove(g, boardId, cellId)
        /\ Dispatch(g, c, boardId, cellId).ret = Applied

\* C16: in every reachable state whose outcome is ongoing, and in the state
\* after every legal move that leaves it ongoing, isValidMove holds of a
\* move that is applied, and enumerate lists a move.
C16_NotStuck ==
    /\ ctx.gameover = NoGameover =>
           (CanMove(G, ctx) /\ enumerate(G, ctx) # <<>>)
    /\ \A boardId \in Ids, cellId \in Ids :
           Legal(boardId, cellId) =>
               LET after == Dispatch(G, ctx, boardId, cellId)
               IN  after.ctx.gameover = NoGameover =>
                       CanMove(after.G, after.ctx)

\* The game is on, the last move pointed at a complete board so the routing
\* is "any", at least three boards are complete, and a move is listed.
C16_Witness ==
    /\ ctx.gameover = NoGameover
    /\ G.nextBoardId = anyBoard
    /\ Cardinality({b \in Ids : G.boards[b].complete}) >= 3
    /\ enumerate(G, ctx) # <<>>

(***************************************************************************)
(* C17                                                                     *)
(***************************************************************************)
\* nextBoardId of game g is "any" or names a board that is not complete.
RoutedToOpen(g) ==
    g.nextBoardId # anyBoard =>
        /\ Len(g.nextBoardId) = 1
        /\ g.nextBoardId[1] \in Ids
        /\ ~g.boards[g.nextBoardId[1]].complete

\* C17: in every reachable state, and after every legal move from it,
\* nextBoardId is "any" or an index in 0..8 of a board that is not complete.
C17_Routed ==
    /\ RoutedToOpen(G)
    /\ \A boardId \in Ids, cellId \in Ids :
           Legal(boardId, cellId) =>
               RoutedToOpen(Dispatch(G, ctx, boardId, cellId).G)

\* A legal move at (b, b) completes board b, and the state after it is
\* routed to "any".
C17_Witness ==
    \E b \in Ids :
        /\ Legal(b, b)
        /\ Dispatch(G, ctx, b, b).G.boards[b].complete
        /\ Dispatch(G, ctx, b, b).G.nextBoardId = anyBoard
        /\ G.nextBoardId = Id(b)

(***************************************************************************)
(* C18                                                                     *)
(*                                                                         *)
(* A move that the game applies, whichever client makes it: the outcome is  *)
(* ongoing and isValidMove holds of its arguments.  Both clients keep       *)
(* making moves while one is possible, so the action is weakly fair.       *)
(***************************************************************************)
AppliedMove ==
    \E boardId \in Ids, cellId \in Ids :
        /\ ctx.gameover = NoGameover
        /\ isValidMove(G, boardId, cellId)
        /\ MakeMove(boardId, cellId)

FairSpec == Spec /\ WF_vars(AppliedMove)

\* The 81 cells of the game.
MaxMoves == Cardinality(Ids \X Ids)

\* C18: every step that changes the state is one applied move from an
\* ongoing state and adds one mark, an ongoing state has fewer than 81
\* marks, a state with every cell marked is terminal, and under weak
\* fairness of the move action the outcome is eventually not ongoing, and
\* then it is a win of a player or a draw.
C18_Terminates ==
    /\ [](/\ Marks(G) <= MaxMoves
          /\ ctx.gameover = NoGameover => Marks(G) < MaxMoves
          /\ ctx.gameover # NoGameover =>
                 \/ ctx.gameover = [draw |-> TRUE]
                 \/ \E p \in Players : ctx.gameover = [winner |-> p])
    /\ [][/\ ctx.gameover = NoGameover
          /\ Marks(G') = Marks(G) + 1]_vars
    /\ <>(ctx.gameover # NoGameover)

\* A game that has ended in a draw and one that has ended in a win are both
\* reachable; this one is the draw, after more than 40 moves.
C18_Witness ==
    /\ ctx.gameover = [draw |-> TRUE]
    /\ Marks(G) > 40

(***************************************************************************)
(* C19                                                                     *)
(***************************************************************************)
\* At most one player holds a line of the grid.
OneSided(cells) == ~(LineOf(cells, "0") /\ LineOf(cells, "1"))

\* The winner of the board, if it has one, holds a line of it and the other
\* player holds none.
SoleWinner(board) ==
    board.winner # null =>
        /\ board.winner \in Players
        /\ LineOf(board.cells, board.winner)
        /\ ~LineOf(board.cells, otherPlayer(board.winner))

\* The boards are one-sided, their meta-grid is, and every winner is sole.
Consistent(boards) ==
    /\ \A i \in Ids : OneSided(boards[i].cells) /\ SoleWinner(boards[i])
    /\ OneSided(Meta(boards))

\* C19: in every reachable state, and after every legal move from it, no
\* board holds lines of both players, the meta-grid of winners holds a line
\* of at most one player, and a board's winner is the only player with a
\* line on that board.
C19_OneSided ==
    /\ Consistent(G.boards)
    /\ \A boardId \in Ids, cellId \in Ids :
           Legal(boardId, cellId) =>
               Consistent(Dispatch(G, ctx, boardId, cellId).G.boards)

\* Both players have won a board, and on a board that one of them has won
\* the other holds two cells of a line whose third cell is empty.
C19_Witness ==
    /\ \E i, j \in Ids : G.boards[i].winner = "0" /\ G.boards[j].winner = "1"
    /\ \E i \in Ids, l \in Lines :
       \E k \in l :
           /\ G.boards[i].winner \in Players
           /\ G.boards[i].cells[k] = null
           /\ \A m \in l \ {k} :
                  G.boards[i].cells[m] = otherPlayer(G.boards[i].winner)

(***************************************************************************)
(* C20                                                                     *)
(***************************************************************************)
\* The number of cells of game g that hold the mark of player p.
Count(g, p) ==
    Cardinality({bc \in Ids \X Ids : g.boards[bc[1]].cells[bc[2]] = p})

\* Marks of player "0" minus marks of player "1".
Lead(g) == Count(g, "0") - Count(g, "1")

\* C20: in every reachable state the marks of player "0" are as many as
\* those of player "1" or one more; while the game is on they are as many
\* exactly when player "0" is to move and one more exactly when player "1"
\* is.
C20_Parity ==
    /\ Lead(G) \in {0, 1}
    /\ ctx.gameover = NoGameover =>
           /\ Lead(G) = 0 <=> ctx.currentPlayer = "0"
           /\ Lead(G) = 1 <=> ctx.currentPlayer = "1"

\* The game is on after nine moves or more and player "1" is to move.
C20_Witness ==
    /\ ctx.gameover = NoGameover
    /\ ctx.currentPlayer = "1"
    /\ Count(G, "0") >= 5
    /\ Lead(G) = 1

====
